---- MODULE Spec2Model ----
(***************************************************************************)
(* Model of libts.GetState (waxz/tsui): the transform that turns the       *)
(* daemon's status, preferences and tailnet-lock status into one State.    *)
(*                                                                         *)
(* Go strings that are compared or ordered (peer names, account names,     *)
(* the version) are sequences of byte values; the backend-state tag and    *)
(* error texts, which are only tested for equality, are TLA+ strings.      *)
(* A nil pointer is the empty sequence and a non-nil pointer to x is <<x>>.*)
(* A *PeerStatus held by State is the key of that peer in status.Peer.     *)
(* An error is the sequence of the pieces of its text.                     *)
(***************************************************************************)
EXTENDS Integers, Sequences, FiniteSets, TLC

VARIABLES
    status,   \* what ts.Status answers (ipnstate.Status)
    prefs,    \* what ts.GetPrefs answers (ipn.Prefs)
    lock,     \* what ts.NetworkLockStatus answers (ipnstate.NetworkLockStatus)
    rpcErr,   \* the error, if any, of each of the three fetches
    state,    \* the State GetState returned last
    err,      \* the error GetState returned last
    pc,       \* "start", "returned", or "panicked" (the process crashed)
    prev      \* the <<state, err>> returned by the call before the last one

vars == <<status, prefs, lock, rpcErr, state, err, pc, prev>>

\* ------------------------------------------------------------------ bounds

\* Largest number of peers in status.Peer.
MaxPeers == 2

\* ------------------------------------------------------- pointers, strings

None == <<>>
Some(x) == <<x>>

Range(s) == {s[i] : i \in DOMAIN s}

\* Every order in which a Go map with key set S can be ranged over.
Orders(S) == {q \in [1..Cardinality(S) -> S] : Range(q) = S}

\* strings.Compare: lexicographic comparison of the bytes.
RECURSIVE Compare(_, _)
Compare(a, b) ==
    IF a = <<>> /\ b = <<>> THEN 0
    ELSE IF a = <<>> THEN -1
    ELSE IF b = <<>> THEN 1
    ELSE IF Head(a) < Head(b) THEN -1
    ELSE IF Head(a) > Head(b) THEN 1
    ELSE Compare(Tail(a), Tail(b))

\* strings.IndexByte(s, c): the first index (from 0) of c in s, or -1.
RECURSIVE IndexByteFrom(_, _, _)
IndexByteFrom(s, c, i) ==
    IF i > Len(s) THEN -1
    ELSE IF s[i] = c THEN i - 1
    ELSE IndexByteFrom(s, c, i + 1)

IndexByte(s, c) == IndexByteFrom(s, c, 1)

\* The byte '-'.
Dash == 45

\* ------------------------------------------------------------ ipn.State

NoState == 0
InUseOtherUser == 1
NeedsLogin == 2
NeedsMachineAuth == 3
Stopped == 4
Starting == 5
Running == 6

\* A mapper that substitutes NoState for an unknown tag.
NewIPNStateFromStringDefaultsSilently(v) ==
    CASE v = "NoState" -> [v |-> NoState, err |-> None]
      [] v = "InUseOtherUser" -> [v |-> InUseOtherUser, err |-> None]
      [] v = "NeedsLogin" -> [v |-> NeedsLogin, err |-> None]
      [] v = "NeedsMachineAuth" -> [v |-> NeedsMachineAuth, err |-> None]
      [] v = "Stopped" -> [v |-> Stopped, err |-> None]
      [] v = "Starting" -> [v |-> Starting, err |-> None]
      [] v = "Running" -> [v |-> Running, err |-> None]
      [] OTHER -> [v |-> NoState, err |-> None]

\* NewIPNStateFromString: the ipn.State of a tag, or an error naming the tag.
NewIPNStateFromString(v) ==
    CASE v = "NoState" -> [v |-> NoState, err |-> None]
      [] v = "InUseOtherUser" -> [v |-> InUseOtherUser, err |-> None]
      [] v = "NeedsLogin" -> [v |-> NeedsLogin, err |-> None]
      [] v = "NeedsMachineAuth" -> [v |-> NeedsMachineAuth, err |-> None]
      [] v = "Stopped" -> [v |-> Stopped, err |-> None]
      [] v = "Starting" -> [v |-> Starting, err |-> None]
      [] v = "Running" -> [v |-> Running, err |-> None]
      [] OTHER -> [v |-> NoState, err |-> Some(<<"unknown ipn state: ", v>>)]

\* --------------------------------------------------------------- peers

\* PeerName(peer): the display name of a peer.
PeerName(peer) == peer.HostName

\* peer.IsTagged(): the peer carries at least one tag.
IsTagged(peer) == Len(peer.Tags) > 0

\* The zero tailcfg.UserProfile, which indexing status.User gives for a
\* missing key.
ZeroUserProfile == [DisplayName |-> <<>>, LoginName |-> <<>>]

\* The zero State, returned beside every error.
ZeroState ==
    [Prefs |-> None, BackendState |-> NoState, TSVersion |-> <<>>,
     AuthURL |-> <<>>, User |-> None, Self |-> None,
     LockKey |-> None, IsLockedOut |-> FALSE,
     ExitNodes |-> <<>>, MyNodes |-> <<>>, TaggedNodes |-> <<>>,
     OwnedNodeKeys |-> <<>>, OwnedNodes |-> <<>>,
     CurrentExitNode |-> None, CurrentExitNodeName |-> <<>>,
     RxBytes |-> 0, TxBytes |-> 0]

\* The account name a peer of another user is filed under: the owner's
\* display name, else the login name, else "" when the owner is unknown.
AccountName(s, peer) ==
    IF peer.UserID \in DOMAIN s.User
    THEN LET user == s.User[peer.UserID]
         IN IF user.DisplayName = <<>> THEN user.LoginName ELSE user.DisplayName
    ELSE <<>>

\* The classification before the first peer is visited.
EmptyBuckets ==
    [ExitNodes |-> <<>>, MyNodes |-> <<>>, TaggedNodes |-> <<>>,
     OwnedNodes |-> <<>>, RxBytes |-> 0, TxBytes |-> 0, panicked |-> FALSE]

\* Appending the peer with key k to the bucket of account `name`.
AddOwned(owned, name, k) ==
    LET made == IF name \in DOMAIN owned THEN owned ELSE owned @@ (name :> <<>>)
    IN [made EXCEPT ![name] = Append(@, k)]

\* A classification that drops a peer whose owner the directory lacks.
ClassifyPeerDropsUnknownOwner(s, acc, k) ==
    LET peer == s.Peer[k]
        sums == [acc EXCEPT !.TxBytes = @ + peer.TxBytes,
                            !.RxBytes = @ + peer.RxBytes]
    IN IF acc.panicked THEN acc
       ELSE IF peer.ExitNodeOption
            THEN [sums EXCEPT !.ExitNodes = Append(@, k)]
       ELSE IF s.Self = None
            THEN [sums EXCEPT !.panicked = TRUE]
       ELSE IF peer.UserID = s.Self[1].UserID
            THEN [sums EXCEPT !.MyNodes = Append(@, k)]
       ELSE IF IsTagged(peer)
            THEN [sums EXCEPT !.TaggedNodes = Append(@, k)]
       ELSE IF peer.UserID \in DOMAIN s.User
            THEN [sums EXCEPT !.OwnedNodes = AddOwned(@, AccountName(s, peer), k)]
       ELSE sums

\* A classification that tests the tags before the owner.
ClassifyPeerTaggedFirst(s, acc, k) ==
    LET peer == s.Peer[k]
        sums == [acc EXCEPT !.TxBytes = @ + peer.TxBytes,
                            !.RxBytes = @ + peer.RxBytes]
    IN IF acc.panicked THEN acc
       ELSE IF peer.ExitNodeOption
            THEN [sums EXCEPT !.ExitNodes = Append(@, k)]
       ELSE IF IsTagged(peer)
            THEN [sums EXCEPT !.TaggedNodes = Append(@, k)]
       ELSE IF s.Self = None
            THEN [sums EXCEPT !.panicked = TRUE]
       ELSE IF peer.UserID = s.Self[1].UserID
            THEN [sums EXCEPT !.MyNodes = Append(@, k)]
       ELSE [sums EXCEPT !.OwnedNodes = AddOwned(@, AccountName(s, peer), k)]

\* One iteration of the loop over status.Peer, for the peer with key k.
\* Reading status.Self.UserID when status.Self is nil panics.
ClassifyPeer(s, acc, k) ==
    LET peer == s.Peer[k]
        sums == [acc EXCEPT !.TxBytes = @ + peer.TxBytes,
                            !.RxBytes = @ + peer.RxBytes]
    IN IF acc.panicked THEN acc
       ELSE IF peer.ExitNodeOption
            THEN [sums EXCEPT !.ExitNodes = Append(@, k)]
       ELSE IF s.Self = None
            THEN [sums EXCEPT !.panicked = TRUE]
       ELSE IF peer.UserID = s.Self[1].UserID
            THEN [sums EXCEPT !.MyNodes = Append(@, k)]
       ELSE IF IsTagged(peer)
            THEN [sums EXCEPT !.TaggedNodes = Append(@, k)]
       ELSE [sums EXCEPT !.OwnedNodes = AddOwned(@, AccountName(s, peer), k)]

\* The loop over status.Peer, ranged over in the given order of its keys.
RECURSIVE ClassifyFrom(_, _, _)
ClassifyFrom(s, acc, order) ==
    IF order = <<>> THEN acc
    ELSE ClassifyFrom(s, ClassifyPeer(s, acc, Head(order)), Tail(order))

Classify(s, order) == ClassifyFrom(s, EmptyBuckets, order)

\* ------------------------------------------------------------ ordering

\* A comparison with its arguments swapped.
CmpNodesSwapped(s, a, b) == Compare(PeerName(s.Peer[b]), PeerName(s.Peer[a]))

\* The comparison sortNodes hands to slices.SortFunc.
CmpNodes(s, a, b) == Compare(PeerName(s.Peer[a]), PeerName(s.Peer[b]))

\* One pass of the insertion sort slices.SortFunc runs on a slice of at most
\* 12 elements: x moves down past every element it is less than.
RECURSIVE InsertNode(_, _, _)
InsertNode(s, sorted, x) ==
    IF sorted = <<>> THEN <<x>>
    ELSE IF CmpNodes(s, x, sorted[Len(sorted)]) < 0
         THEN Append(InsertNode(s, SubSeq(sorted, 1, Len(sorted) - 1), x),
                     sorted[Len(sorted)])
    ELSE Append(sorted, x)

RECURSIVE SortFrom(_, _, _)
SortFrom(s, sorted, rest) ==
    IF rest = <<>> THEN sorted
    ELSE SortFrom(s, InsertNode(s, sorted, Head(rest)), Tail(rest))

\* sortNodes: slices.SortFunc by PeerName. Equal names keep the order they
\* had in nodes, which is the order the map status.Peer was ranged over.
sortNodes(s, nodes) == SortFrom(s, <<>>, nodes)

\* slices.Sort on the account names.
RECURSIVE InsertKey(_, _)
InsertKey(sorted, x) ==
    IF sorted = <<>> THEN <<x>>
    ELSE IF Compare(x, sorted[Len(sorted)]) < 0
         THEN Append(InsertKey(SubSeq(sorted, 1, Len(sorted) - 1), x),
                     sorted[Len(sorted)])
    ELSE Append(sorted, x)

RECURSIVE SortKeysFrom(_, _)
SortKeysFrom(sorted, rest) ==
    IF rest = <<>> THEN sorted
    ELSE SortKeysFrom(InsertKey(sorted, Head(rest)), Tail(rest))

\* The keys left in the order the map gave them.
SortKeysSkipped(keys) == keys

SortKeys(keys) == SortKeysFrom(<<>>, keys)

\* The loop over state.OwnedNodes: every value is sorted and every key is
\* appended to OwnedNodeKeys, in the order the map is ranged over; then the
\* keys are sorted.
SortOwnedNodes(s, owned) == [a \in DOMAIN owned |-> sortNodes(s, owned[a])]

\* ------------------------------------------------- the rest of GetState

\* The version up to its first '-'.
ShortVersion(v) ==
    LET i == IndexByte(v, Dash)
    IN IF i # -1 THEN SubSeq(v, 1, i) ELSE v

\* State.User: the directory's entry for the owner of the self peer.
ResolveUser(s) ==
    IF s.Self # None
    THEN Some(IF s.Self[1].UserID \in DOMAIN s.User
              THEN s.User[s.Self[1].UserID]
              ELSE ZeroUserProfile)
    ELSE None

\* key.NLPublic.IsZero
IsZero(k) == k = 0

\* A lock evaluation that does not ask whether the lock is enabled.
EvalLockIgnoresEnabled(l, backendState) ==
    IF l.NodeKey # None /\ ~IsZero(l.PublicKey)
    THEN [LockKey |-> Some(l.PublicKey),
          IsLockedOut |-> (~l.NodeKeySigned /\ backendState = Running)]
    ELSE [LockKey |-> None, IsLockedOut |-> FALSE]

\* State.LockKey and State.IsLockedOut.
EvalLock(l, backendState) ==
    IF l.Enabled /\ l.NodeKey # None /\ ~IsZero(l.PublicKey)
    THEN [LockKey |-> Some(l.PublicKey),
          IsLockedOut |-> (~l.NodeKeySigned /\ backendState = Running)]
    ELSE [LockKey |-> None, IsLockedOut |-> FALSE]

\* The name of the first of exitNodes, from index i on, whose ID is id.
RECURSIVE FirstNameWithID(_, _, _, _)
FirstNameWithID(s, exitNodes, id, i) ==
    IF i > Len(exitNodes) THEN <<>>
    ELSE IF s.Peer[exitNodes[i]].ID = id THEN PeerName(s.Peer[exitNodes[i]])
    ELSE FirstNameWithID(s, exitNodes, id, i + 1)

\* A resolution that looks the id up among all peers, in key order.
ResolveExitNodeAmongAllPeers(s, exitNodes) ==
    IF s.ExitNodeStatus # None
    THEN [CurrentExitNode |-> Some(s.ExitNodeStatus[1].ID),
          CurrentExitNodeName |->
              FirstNameWithID(s, [k \in DOMAIN s.Peer |-> k],
                              s.ExitNodeStatus[1].ID, 1)]
    ELSE [CurrentExitNode |-> None, CurrentExitNodeName |-> <<>>]

\* State.CurrentExitNode and State.CurrentExitNodeName.
ResolveExitNode(s, exitNodes) ==
    IF s.ExitNodeStatus # None
    THEN [CurrentExitNode |-> Some(s.ExitNodeStatus[1].ID),
          CurrentExitNodeName |->
              FirstNameWithID(s, exitNodes, s.ExitNodeStatus[1].ID, 1)]
    ELSE [CurrentExitNode |-> None, CurrentExitNodeName |-> <<>>]

\* What a call of GetState ends with.
Returned(st, e) == [state |-> st, err |-> e, pc |-> "returned"]
Panicked == [state |-> ZeroState, err |-> None, pc |-> "panicked"]

\* The State GetState builds from the classification c of the peers, the
\* map state.OwnedNodes being ranged over in keyOrder.
Snapshot(s, p, l, backendState, c, keyOrder) ==
    LET exitNodes == sortNodes(s, c.ExitNodes)
        lk == EvalLock(l, backendState)
        ex == ResolveExitNode(s, exitNodes)
    IN [Prefs |-> Some(p), BackendState |-> backendState,
        TSVersion |-> ShortVersion(s.Version),
        AuthURL |-> s.AuthURL, User |-> ResolveUser(s), Self |-> s.Self,
        LockKey |-> lk.LockKey, IsLockedOut |-> lk.IsLockedOut,
        ExitNodes |-> exitNodes,
        MyNodes |-> sortNodes(s, c.MyNodes),
        TaggedNodes |-> sortNodes(s, c.TaggedNodes),
        OwnedNodeKeys |-> SortKeys(keyOrder),
        OwnedNodes |-> SortOwnedNodes(s, c.OwnedNodes),
        CurrentExitNode |-> ex.CurrentExitNode,
        CurrentExitNodeName |-> ex.CurrentExitNodeName,
        RxBytes |-> c.RxBytes, TxBytes |-> c.TxBytes]

\* The outcomes of GetState when status.Peer is ranged over in peerOrder.
Outcomes(s, p, l, e, peerOrder) ==
    IF e.Status # None THEN {Returned(ZeroState, e.Status)}
    ELSE IF e.Prefs # None THEN {Returned(ZeroState, e.Prefs)}
    ELSE IF e.LockStatus # None THEN {Returned(ZeroState, e.LockStatus)}
    ELSE LET b == NewIPNStateFromString(s.BackendState)
         IN IF b.err # None
            THEN {Returned(ZeroState,
                           Some(<<"cannot get status from state: ">> \o b.err[1]))}
            ELSE LET c == Classify(s, peerOrder)
                 IN IF c.panicked THEN {Panicked}
                    ELSE {Returned(Snapshot(s, p, l, b.v, c, keyOrder), None) :
                            keyOrder \in Orders(DOMAIN c.OwnedNodes)}

\* -------------------------------------------------------------- inputs

\* "ab", "b": peer names; "al", "bo", "me": account names; "1-a": a version.
PeerNames == {<<97, 98>>, <<98>>}
Al == <<97, 108>>
Bo == <<98, 111>>
Me == <<109, 101>>
Versions == {<<49, 45, 97>>}

UserIDs == {1, 2, 3}
\* The profiles of the users other than the local one: one with a display
\* name, one known by its login name only.
Profiles ==
    {[DisplayName |-> Bo, LoginName |-> Al], [DisplayName |-> <<>>, LoginName |-> Al]}

\* The profile of the local user.
SelfProfile == [DisplayName |-> Me, LoginName |-> Me]

\* status.User: the local user may be missing, and so may each other user.
Directories ==
    {d \in UNION {[U -> Profiles \cup {SelfProfile}] : U \in SUBSET UserIDs} :
        \A u \in DOMAIN d : (u = 1) <=> (d[u] = SelfProfile)}

\* The maps status.Peer of at most MaxPeers peers drawn from base, keyed
\* 1..n. A peer has received as many bytes as its key says, and its key is
\* its ID too when keyedIDs.
PeerMaps(base, keyedIDs) ==
    UNION {{[k \in 1..n |-> [g[k] EXCEPT !.RxBytes = k,
                                         !.ID = IF keyedIDs THEN k ELSE @]] :
              g \in [1..n -> base]} : n \in 0..MaxPeers}

\* Peers of one name that differ in owner, exit-node capability and tags.
OwnedPeers ==
    [ID : {0}, HostName : {<<98>>}, UserID : UserIDs, ExitNodeOption : BOOLEAN,
     Tags : {<<>>, <<"tag:server">>}, RxBytes : {0}, TxBytes : {1}]

\* Peers of the names "", "ab" and "b", of the local user and of user 2.
NamedPeers ==
    [ID : {0}, HostName : PeerNames \cup {<<>>}, UserID : {1, 2},
     ExitNodeOption : BOOLEAN, Tags : {<<>>, <<"tag:server">>},
     RxBytes : {0}, TxBytes : {1}]

\* Peers of the local user that differ in ID, name and exit-node capability.
ExitPeers ==
    [ID : {1, 2}, HostName : PeerNames, UserID : {1},
     ExitNodeOption : BOOLEAN, Tags : {<<>>}, RxBytes : {0}, TxBytes : {1}]

\* An exit node and a node that is none, both of user 2.
FixedPeers ==
    (1 :> [ID |-> 1, HostName |-> <<98>>, UserID |-> 2, ExitNodeOption |-> TRUE,
           Tags |-> <<>>, RxBytes |-> 1, TxBytes |-> 1])
    @@ (2 :> [ID |-> 2, HostName |-> <<97, 98>>, UserID |-> 2,
              ExitNodeOption |-> FALSE, Tags |-> <<>>, RxBytes |-> 2, TxBytes |-> 1])

FixedDirectory ==
    (1 :> SelfProfile) @@ (2 :> [DisplayName |-> Bo, LoginName |-> Al])

Selves == {None, Some([UserID |-> 1])}

BackendStateTags == {"NoState", "InUseOtherUser", "NeedsLogin", "NeedsMachineAuth",
         "Stopped", "Starting", "Running", "Weird", ""}

Locks ==
    [Enabled : BOOLEAN, NodeKey : {None, Some(5)}, PublicKey : {0, 7},
     NodeKeySigned : BOOLEAN]

OneLock ==
    [Enabled |-> TRUE, NodeKey |-> Some(5), PublicKey |-> 7, NodeKeySigned |-> FALSE]

RpcErrs ==
    [Status : {None, Some(<<"status failed">>)},
     Prefs : {None, Some(<<"prefs failed">>)},
     LockStatus : {None, Some(<<"lock status failed">>)}]

NoRpcErr == [Status |-> None, Prefs |-> None, LockStatus |-> None]

InitFrom(peerMaps, selves, dirs, exits, tags, locks, errs) ==
    /\ status \in [Peer : peerMaps, Self : selves, User : dirs,
                   ExitNodeStatus : exits, BackendState : tags,
                   Version : Versions, AuthURL : {<<>>}]
    /\ prefs = [WantRunning |-> TRUE]
    /\ lock \in locks
    /\ rpcErr \in errs
    /\ state = ZeroState
    /\ err = None
    /\ pc = "start"
    /\ prev = None

\* Every owner, capability and tagging of the peers, with or without a self
\* peer, under every user directory.
Init ==
    InitFrom(PeerMaps(OwnedPeers, TRUE), Selves, Directories, {None},
             {"Running"}, {OneLock}, {NoRpcErr})

\* Every naming of the peers.
InitOrder ==
    InitFrom(PeerMaps(NamedPeers, TRUE), Selves, {FixedDirectory}, {None},
             {"Running"}, {OneLock}, {NoRpcErr})

\* Every selected exit node over peers that may share an ID.
InitExit ==
    InitFrom(PeerMaps(ExitPeers, FALSE), Selves, {FixedDirectory},
             {None} \cup {Some([ID |-> i]) : i \in 1..3}, {"Running"},
             {OneLock}, {NoRpcErr})

\* Every backend-state tag, lock status and failing fetch.
InitDaemon ==
    InitFrom({FixedPeers}, {Some([UserID |-> 1])}, {FixedDirectory},
             {None}, BackendStateTags, Locks, RpcErrs)

\* ------------------------------------------------------------- actions

\* A call of GetState. The daemon's answers stay what they are, so a second
\* call is a re-run on the same input.
GetState ==
    /\ pc # "panicked"
    /\ \E peerOrder \in Orders(DOMAIN status.Peer) :
         \E r \in Outcomes(status, prefs, lock, rpcErr, peerOrder) :
            /\ state' = r.state
            /\ err' = r.err
            /\ pc' = r.pc
    /\ prev' = IF pc = "returned" THEN Some([state |-> state, err |-> err]) ELSE None
    /\ UNCHANGED <<status, prefs, lock, rpcErr>>

Next == GetState

Spec == Init /\ [][Next]_vars
SpecOrder == InitOrder /\ [][Next]_vars
SpecExit == InitExit /\ [][Next]_vars
SpecDaemon == InitDaemon /\ [][Next]_vars

\* ------------------------------------------------------------ properties

\* The last call of GetState returned a State and no error.
Succeeded == pc = "returned" /\ err = None

\* No fetch failed.
FetchesSucceeded ==
    rpcErr.Status = None /\ rpcErr.Prefs = None /\ rpcErr.LockStatus = None

\* The tags of the seven backend states.
RecognisedTags ==
    {"NoState", "InUseOtherUser", "NeedsLogin", "NeedsMachineAuth",
     "Stopped", "Starting", "Running"}

\* The places a peer can stand at in st: bucket 1 is ExitNodes, 2 MyNodes,
\* 3 TaggedNodes and 4 the OwnedNodes sequence of the account `account`.
Places(st) ==
    {[bucket |-> 1, account |-> <<>>, i |-> i] : i \in DOMAIN st.ExitNodes}
    \cup {[bucket |-> 2, account |-> <<>>, i |-> i] : i \in DOMAIN st.MyNodes}
    \cup {[bucket |-> 3, account |-> <<>>, i |-> i] : i \in DOMAIN st.TaggedNodes}
    \cup UNION {{[bucket |-> 4, account |-> a, i |-> i] :
                    i \in DOMAIN st.OwnedNodes[a]} : a \in DOMAIN st.OwnedNodes}

PeerAt(st, pl) ==
    CASE pl.bucket = 1 -> st.ExitNodes[pl.i]
      [] pl.bucket = 2 -> st.MyNodes[pl.i]
      [] pl.bucket = 3 -> st.TaggedNodes[pl.i]
      [] OTHER -> st.OwnedNodes[pl.account][pl.i]

\* C1: after a successful GetState the sequences ExitNodes, MyNodes,
\* TaggedNodes and the OwnedNodes buckets hold as many entries as there are
\* input peers, and every input peer stands at exactly one place.
C1_Partition ==
    Succeeded =>
        /\ Cardinality(Places(state)) = Cardinality(DOMAIN status.Peer)
        /\ \A k \in DOMAIN status.Peer :
              Cardinality({pl \in Places(state) : PeerAt(state, pl) = k}) = 1

\* C1 witness: a successful build that filed one peer under the
\* unknown-owner account "" and another peer among the tagged nodes.
C1_Witness ==
    /\ Succeeded
    /\ <<>> \in DOMAIN state.OwnedNodes
    /\ \E k \in DOMAIN status.Peer :
          /\ status.Peer[k].UserID \notin DOMAIN status.User
          /\ k \in Range(state.OwnedNodes[<<>>])
    /\ Len(state.TaggedNodes) = 1

\* C2: with no fetch failing, a recognised tag and no self peer, a finished
\* call of GetState has returned a State without error, with User unset.
C2_TotalWithoutSelf ==
    (pc # "start" /\ FetchesSucceeded /\ status.Self = None
        /\ status.BackendState \in RecognisedTags)
    => (pc = "returned" /\ err = None /\ state.User = None)

\* The account name the claim gives a peer of another user.
ClaimedAccount(peer) ==
    IF peer.UserID \notin DOMAIN status.User THEN <<>>
    ELSE IF status.User[peer.UserID].DisplayName # <<>>
         THEN status.User[peer.UserID].DisplayName
    ELSE status.User[peer.UserID].LoginName

\* C3: after a successful GetState every peer stands where the first
\* matching rule puts it: exit-node capable in ExitNodes; else owned by the
\* self peer's user in MyNodes; else tagged in TaggedNodes; else in
\* OwnedNodes under the owner's display name, or login name, or "".
C3_Precedence ==
    Succeeded =>
        \A k \in DOMAIN status.Peer :
            LET peer == status.Peer[k]
            IN IF peer.ExitNodeOption THEN k \in Range(state.ExitNodes)
               ELSE IF status.Self # None /\ peer.UserID = status.Self[1].UserID
                    THEN k \in Range(state.MyNodes)
               ELSE IF Len(peer.Tags) > 0 THEN k \in Range(state.TaggedNodes)
               ELSE /\ ClaimedAccount(peer) \in DOMAIN state.OwnedNodes
                    /\ k \in Range(state.OwnedNodes[ClaimedAccount(peer)])

\* C3 witness: a tagged exit node of the local user stands in ExitNodes, and
\* a tagged peer of the local user that is no exit node stands in MyNodes.
C3_Witness ==
    /\ Succeeded
    /\ status.Self # None
    /\ \E k \in Range(state.ExitNodes) :
          /\ status.Peer[k].UserID = status.Self[1].UserID
          /\ Len(status.Peer[k].Tags) > 0
    /\ \E k \in Range(state.MyNodes) : Len(status.Peer[k].Tags) > 0

\* C4: a second successful GetState on the same input returns every
\* sequence in the order the first returned it.
C4_SameOrderOnRerun ==
    (Succeeded /\ prev # None /\ prev[1].err = None) =>
        /\ state.ExitNodes = prev[1].state.ExitNodes
        /\ state.MyNodes = prev[1].state.MyNodes
        /\ state.TaggedNodes = prev[1].state.TaggedNodes
        /\ state.OwnedNodes = prev[1].state.OwnedNodes
        /\ state.OwnedNodeKeys = prev[1].state.OwnedNodeKeys

\* String() of an ipn.State.
StateName(b) ==
    <<"NoState", "InUseOtherUser", "NeedsLogin", "NeedsMachineAuth",
      "Stopped", "Starting", "Running">>[b + 1]

\* C5: when the fetches succeed, an unrecognised tag makes GetState return
\* an error that holds the tag, beside the zero State; a recognised tag
\* gives no error and the backend state of that name.
C5_ClosedEnumeration ==
    (pc = "returned" /\ FetchesSucceeded) =>
        IF status.BackendState \in RecognisedTags
        THEN err = None /\ StateName(state.BackendState) = status.BackendState
        ELSE /\ err # None
             /\ status.BackendState \in Range(err[1])
             /\ state = ZeroState

\* C5 witness: GetState has returned on the tag "Weird" with an error.
C5_Witness ==
    /\ pc = "returned"
    /\ FetchesSucceeded
    /\ status.BackendState = "Weird"
    /\ err # None

\* C6: after a successful GetState, LockKey is set iff the lock is enabled, a
\* node key is present and the public key is not zero, and is then the public
\* key; IsLockedOut is true iff LockKey is set, the node key is unsigned and
\* the backend state is Running.
C6_LockEvaluation ==
    Succeeded =>
        /\ (state.LockKey # None) <=>
              (lock.Enabled /\ lock.NodeKey # None /\ lock.PublicKey # 0)
        /\ state.LockKey # None => state.LockKey = Some(lock.PublicKey)
        /\ state.IsLockedOut <=>
              (state.LockKey # None /\ ~lock.NodeKeySigned
                  /\ status.BackendState = "Running")
        /\ ~lock.Enabled => (state.LockKey = None /\ ~state.IsLockedOut)
        /\ state.IsLockedOut => state.LockKey # None

\* C6 witness: a successful build that reports the node locked out.
C6_Witness == Succeeded /\ state.IsLockedOut /\ state.LockKey = Some(7)

\* The indices of ExitNodes whose peer has the selected ID.
Matches ==
    {i \in DOMAIN state.ExitNodes :
        status.Peer[state.ExitNodes[i]].ID = status.ExitNodeStatus[1].ID}

\* C7: after a successful GetState, with no exit node selected
\* CurrentExitNode is nil and CurrentExitNodeName empty; with one selected
\* CurrentExitNode is its ID and CurrentExitNodeName the name of the first
\* peer of ExitNodes with that ID, or empty when ExitNodes has none.
C7_ExitNodeResolution ==
    Succeeded =>
        IF status.ExitNodeStatus = None
        THEN state.CurrentExitNode = None /\ state.CurrentExitNodeName = <<>>
        ELSE /\ state.CurrentExitNode = Some(status.ExitNodeStatus[1].ID)
             /\ IF Matches = {}
                THEN state.CurrentExitNodeName = <<>>
                ELSE \E i \in Matches :
                        /\ \A j \in Matches : i <= j
                        /\ state.CurrentExitNodeName =
                              status.Peer[state.ExitNodes[i]].HostName
             /\ state.CurrentExitNodeName # <<>> => Matches # {}

\* C7 witness: the selected ID is that of a peer that is no exit node and of
\* no peer of ExitNodes, which is not empty; the ID is set and the name empty.
C7_Witness ==
    /\ Succeeded
    /\ status.ExitNodeStatus # None
    /\ state.CurrentExitNode = Some(status.ExitNodeStatus[1].ID)
    /\ \E k \in Range(state.MyNodes) : status.Peer[k].ID = status.ExitNodeStatus[1].ID
    /\ state.ExitNodes # <<>>
    /\ Matches = {}
    /\ state.CurrentExitNodeName = <<>>

\* C8: after a successful GetState, OwnedNodeKeys lists exactly the keys of
\* OwnedNodes in strictly ascending order, and no key maps to an empty
\* sequence.
C8_OwnedNodeKeys ==
    Succeeded =>
        /\ Range(state.OwnedNodeKeys) = DOMAIN state.OwnedNodes
        /\ \A i \in 1..(Len(state.OwnedNodeKeys) - 1) :
              Compare(state.OwnedNodeKeys[i], state.OwnedNodeKeys[i + 1]) < 0
        /\ \A a \in DOMAIN state.OwnedNodes : Len(state.OwnedNodes[a]) > 0

\* C8 witness: two peers of distinct owners share one account name, so that
\* OwnedNodes has one key for both.
C8_Witness ==
    /\ Succeeded
    /\ \E a \in DOMAIN state.OwnedNodes :
          \E i, j \in DOMAIN state.OwnedNodes[a] :
              status.Peer[state.OwnedNodes[a][i]].UserID
                  # status.Peer[state.OwnedNodes[a][j]].UserID
    /\ Len(state.OwnedNodeKeys) = 1

\* seq is in non-decreasing order of the peers' display names.
NonDecreasing(seq) ==
    \A i, j \in DOMAIN seq :
        i < j => Compare(status.Peer[seq[i]].HostName, status.Peer[seq[j]].HostName) <= 0

\* seq holds each of the peers of unsorted once, and nothing else.
SamePeers(seq, unsorted) ==
    Len(seq) = Len(unsorted) /\ Range(seq) = Range(unsorted)

\* C9: after a successful GetState each of ExitNodes, MyNodes, TaggedNodes and
\* every OwnedNodes sequence is in non-decreasing order of display name and
\* holds the peers classification put there, whatever order status.Peer was
\* ranged over in.
C9_Sorted ==
    Succeeded =>
        /\ NonDecreasing(state.ExitNodes)
        /\ NonDecreasing(state.MyNodes)
        /\ NonDecreasing(state.TaggedNodes)
        /\ \A a \in DOMAIN state.OwnedNodes : NonDecreasing(state.OwnedNodes[a])
        /\ \A order \in Orders(DOMAIN status.Peer) :
              LET c == Classify(status, order)
              IN /\ SamePeers(state.ExitNodes, c.ExitNodes)
                 /\ SamePeers(state.MyNodes, c.MyNodes)
                 /\ SamePeers(state.TaggedNodes, c.TaggedNodes)
                 /\ DOMAIN state.OwnedNodes = DOMAIN c.OwnedNodes
                 /\ \A a \in DOMAIN c.OwnedNodes :
                       SamePeers(state.OwnedNodes[a], c.OwnedNodes[a])

\* C9 witness: MyNodes holds two peers of different names, the peer with the
\* greater key first.
C9_Witness ==
    /\ Succeeded
    /\ Len(state.MyNodes) = 2
    /\ state.MyNodes[1] > state.MyNodes[2]
    /\ status.Peer[state.MyNodes[1]].HostName # status.Peer[state.MyNodes[2]].HostName

\* C10: after a successful GetState, User is set only when status.User holds
\* a profile for the self peer's owner, and is then that profile.
C10_UserNilIfUnknown ==
    Succeeded =>
        IF status.Self # None /\ status.Self[1].UserID \in DOMAIN status.User
        THEN state.User = Some(status.User[status.Self[1].UserID])
        ELSE state.User = None

====
